---- MODULE Spec2Model ----
(***************************************************************************)
(* learnX account backend (src/main.py): the users table, the seven        *)
(* request handlers and the interleaving of their store round trips.       *)
(*                                                                         *)
(* users          the rows of the users table, in id order                 *)
(* reqs           the requests in flight: handler, position, arguments,    *)
(*                the row as loaded and the object as modified             *)
(* lastResp       the response most recently sent                          *)
(* nextToken      how many tokens uuid4 has handed out, plus one           *)
(* started        how many requests have been accepted                     *)
(* outbox         the mails handed to the Notifier (send_auth_email)       *)
(*                                                                         *)
(* Every handler is a coroutine that gives up control only at its awaits   *)
(* on the store (session.execute, session.commit, session.refresh); the    *)
(* Python between two awaits runs without interruption.  One action of     *)
(* this model is one store round trip of one request together with the     *)
(* Python that follows it up to the next await (or up to the response).    *)
(* Each request has a session of its own, so what a request has loaded is  *)
(* a private snapshot, and a commit flushes only the attributes the        *)
(* handler changed (SQLAlchemy's unit of work).                            *)
(***************************************************************************)
EXTENDS Integers, Sequences, FiniteSets, TLC

(***************************************************************************)
(* Bounds of the model.                                                    *)
(***************************************************************************)
\* requests accepted over a run in which requests overlap
MaxRequests == 3
\* requests accepted over a run in which they are served one at a time
MaxSerialRequests == 5
\* tokens uuid4 hands out over a run
MaxTokens == 3

\* requests that may be in flight at once
Slots == {1, 2}

(***************************************************************************)
(* Values the requests carry.                                              *)
(***************************************************************************)
\* SQL NULL / Python None; no request field ever carries it as a value
NULL == "<NULL>"

Emails == <<"ada@x.edu", "bob@x.edu">>
StudentIds == <<"S100", "S200">>
GoogleIds == <<"g-1", "g-2">>
\* the names a person registers with, and the given_name/family_name the
\* identity provider reports for the same email ('' when it reports none)
RegisteredNames(email) == IF email = "ada@x.edu" THEN <<"Ada", "Lovelace">> ELSE <<"Bob", "Stone">>
ClaimedNames(email) == IF email = "ada@x.edu" THEN <<"Augusta", "King">> ELSE <<"", "">>
\* secrets as their UTF-8 bytes: "pw1", "pw2"
Secrets == << <<112, 119, 49>>, <<112, 119, 50>> >>
\* a token no uuid4 call of this run returned
BogusToken == "t0"

VARIABLES users, reqs, lastResp, nextToken, started, outbox

vars == <<users, reqs, lastResp, nextToken, started, outbox>>

(***************************************************************************)
(* Credential codec: base64.b64encode(secret.encode()).decode()            *)
(***************************************************************************)
B64Alphabet ==
    <<"A","B","C","D","E","F","G","H","I","J","K","L","M","N","O","P",
      "Q","R","S","T","U","V","W","X","Y","Z","a","b","c","d","e","f",
      "g","h","i","j","k","l","m","n","o","p","q","r","s","t","u","v",
      "w","x","y","z","0","1","2","3","4","5","6","7","8","9","+","/">>

B64Char(n) == B64Alphabet[n + 1]

RECURSIVE b64encode(_)
b64encode(bytes) ==
    IF Len(bytes) = 0 THEN ""
    ELSE IF Len(bytes) = 1 THEN
        B64Char(bytes[1] \div 4) \o B64Char((bytes[1] % 4) * 16) \o "=="
    ELSE IF Len(bytes) = 2 THEN
        B64Char(bytes[1] \div 4)
            \o B64Char((bytes[1] % 4) * 16 + bytes[2] \div 16)
            \o B64Char((bytes[2] % 16) * 4) \o "="
    ELSE
        B64Char(bytes[1] \div 4)
            \o B64Char((bytes[1] % 4) * 16 + bytes[2] \div 16)
            \o B64Char((bytes[2] % 16) * 4 + bytes[3] \div 64)
            \o B64Char(bytes[3] % 64)
            \o b64encode(SubSeq(bytes, 4, Len(bytes)))

(***************************************************************************)
(* Token generator: uuid.uuid4().hex.  The n-th call returns a value no    *)
(* earlier call returned and no client can guess before it is mailed.      *)
(***************************************************************************)
uuid4(n) == "t" \o ToString(n)

IssuedTokens == {uuid4(n) : n \in 1..(nextToken - 1)}

(***************************************************************************)
(* The users table.                                                        *)
(***************************************************************************)
UserDB(id, firstName, lastName, email, studentId, password, google_id, is_verified, verification_token) ==
    [id |-> id, firstName |-> firstName, lastName |-> lastName,
     email |-> email, studentId |-> studentId, password |-> password,
     google_id |-> google_id, reset_token |-> NULL,
     is_verified |-> is_verified, verification_token |-> verification_token]

Columns == {"firstName", "lastName", "email", "studentId", "password",
            "google_id", "reset_token", "is_verified", "verification_token"}

\* the table without unique=True on email
UniqueColumnsButEmail == {"studentId", "google_id"}


\* Column(..., unique=True)
UniqueColumns == {"email", "studentId", "google_id"}

\* no row loaded: the result of .first() on an empty result
NoRow == UserDB(0, NULL, NULL, NULL, NULL, NULL, NULL, 0, NULL)

Rows(table) == {table[i] : i \in 1..Len(table)}

\* session.execute(select(UserDB).where(col == value)): the rows that match;
\* a comparison with NULL matches nothing
SelectWhere(table, col, value) ==
    {u \in Rows(table) : u[col] # NULL /\ u[col] = value}

\* result.scalars().first(): some matching row (no ORDER BY), or none
First(matching) == IF matching = {} THEN {NoRow} ELSE matching

\* Python truthiness of a nullable string attribute
Truthy(s) == s # NULL /\ s # ""

(***************************************************************************)
(* session.commit(): the flush.                                            *)
(***************************************************************************)
\* the columns whose value the handler changed since the row was loaded
Dirty(loaded, obj) == {c \in Columns : obj[c] # loaded[c]}

\* the store's unique constraints: would writing `obj`'s columns `cols` for
\* row `id` collide with another row?  NULLs never collide.
ViolatesUnique(table, id, obj, cols) ==
    \E c \in cols \cap UniqueColumns :
        /\ obj[c] # NULL
        /\ \E u \in Rows(table) : u.id # id /\ u[c] = obj[c]

\* an INSERT that checks only the email
InsertFailsOnEmailOnly(table, obj) == ViolatesUnique(table, 0, obj, {"email"})

\* INSERT INTO users: fails on a unique violation (IntegrityError)
InsertFails(table, obj) == ViolatesUnique(table, 0, obj, Columns)

Insert(table, obj) == Append(table, [obj EXCEPT !.id = Len(table) + 1])

\* an UPDATE that checks only the subject id
UpdateFailsOnGoogleIdOnly(table, loaded, obj) ==
    ViolatesUnique(table, loaded.id, obj, Dirty(loaded, obj) \cap {"google_id"})

\* UPDATE users SET <dirty columns> WHERE id = loaded.id
UpdateFails(table, loaded, obj) ==
    ViolatesUnique(table, loaded.id, obj, Dirty(loaded, obj))

Update(table, loaded, obj) ==
    [table EXCEPT ![loaded.id] =
        [c \in DOMAIN @ |->
            IF c \in Dirty(loaded, obj) THEN obj[c] ELSE @[c]]]

(***************************************************************************)
(* Requests and responses.                                                 *)
(***************************************************************************)
NoArgs == [firstName |-> NULL, lastName |-> NULL, email |-> NULL, studentId |-> NULL, password |-> <<>>, google_id |-> NULL, token |-> NULL]

NoResp == [op |-> "none", status |-> 0, detail |-> NULL, email |-> NULL, is_new_user |-> FALSE, user |-> <<>>, token |-> NULL]

\* an answer of handler `op`: a return (200) or an HTTPException
Resp(op, status, detail) ==
    [NoResp EXCEPT !.op = op, !.status = status, !.detail = detail]

\* the public profile of a response: firstName, lastName, studentId
Profile(u, studentId) == <<u.firstName, u.lastName, studentId>>

Idle == [op |-> "none", pc |-> "idle", args |-> NoArgs, row |-> NoRow, obj |-> NoRow]

\* a new request is accepted in slot r, the lowest free one
CanStart(r) ==
    /\ reqs[r].pc = "idle"
    /\ \A q \in Slots : q < r => reqs[q].pc # "idle"

\* slot r's request at position pc of handler op
At(r, op, pc) == reqs[r].op = op /\ reqs[r].pc = pc

\* a request of handler op with its arguments, accepted in slot r and
\* suspended at position pc
Accept(r, op, args, pc, row, obj) ==
    /\ reqs' = [reqs EXCEPT ![r] = [op |-> op, pc |-> pc, args |-> args, row |-> row, obj |-> obj]]
    /\ started' = started + 1
    /\ UNCHANGED lastResp

\* a request answered in the step that accepted it
Answer(resp) ==
    /\ lastResp' = resp
    /\ started' = started + 1
    /\ UNCHANGED reqs

\* the request of slot r returns or raises: its session closes
Finish(r, resp) ==
    /\ reqs' = [reqs EXCEPT ![r] = Idle]
    /\ lastResp' = resp
    /\ UNCHANGED started

\* the request of slot r moves on to position pc
Goto(r, pc) ==
    /\ reqs' = [reqs EXCEPT ![r].pc = pc]
    /\ UNCHANGED <<lastResp, started>>

Init ==
    /\ users = <<>>
    /\ reqs = [r \in Slots |-> Idle]
    /\ lastResp = NoResp
    /\ nextToken = 1
    /\ started = 0
    /\ outbox = {}

(***************************************************************************)
(* Notifier: send_auth_email.  It is awaited after the commit and never    *)
(* suspends (smtplib blocks), so it runs in the step of the commit it      *)
(* follows.  It reads the SMTP settings from the environment at every      *)
(* call.                                                                   *)
(***************************************************************************)
\* what the mail carries: recipient, purpose, and the token of the link
Mail(email, purpose, token) == [to |-> email, purpose |-> purpose, token |-> token]

\* how a call of send_auth_email can end: the settings are missing, the
\* SMTP exchange raises, or the mail is sent
SendOutcomes == {"unconfigured", "failed", "sent"}

SendResp(op, outcome, message) ==
    IF outcome = "unconfigured" THEN Resp(op, 500, "Mail server not configured")
    ELSE IF outcome = "failed" THEN Resp(op, 500, "Failed to send email")
    ELSE Resp(op, 200, message)

\* send_auth_email is called for slot r's request and the handler returns
\* what it returns, or raises what it raises
SendAuthEmail(r, purpose, token, message) ==
    /\ outbox' = outbox \cup {Mail(reqs[r].obj.email, purpose, token)}
    /\ \E outcome \in SendOutcomes : Finish(r, SendResp(reqs[r].op, outcome, message))

(***************************************************************************)
(* POST /register                                                          *)
(***************************************************************************)
\* what register answers when its select returned `existing_user`
RegisterConflict(existing_user, studentId) ==
    IF existing_user.studentId = studentId
    THEN Resp("register", 400, "Student ID already registered")
    ELSE Resp("register", 400, "Email already registered")

\* the select without its email disjunct
RegisterSelectByStudentId(table, studentId, email) == SelectWhere(table, "studentId", studentId)

\* select ... where studentId == :sid OR email == :email
RegisterSelect(table, studentId, email) ==
    SelectWhere(table, "studentId", studentId) \cup SelectWhere(table, "email", email)

\* UserDB(firstName=..., ..., is_verified=0, verification_token=...)
NewLocalUser(args, token) ==
    UserDB(0, args.firstName, args.lastName, args.email, args.studentId, b64encode(args.password), NULL, 0, token)

RegisterArgs(names, email, studentId, password) ==
    [NoArgs EXCEPT !.firstName = names[1], !.lastName = names[2], !.email = email, !.studentId = studentId, !.password = password]

\* the request arrives, runs its select, and either raises the conflict or
\* builds the new row (encoded secret, fresh verification token)
Register(r, names, email, studentId, password) ==
    /\ CanStart(r)
    /\ \E existing_user \in First(RegisterSelect(users, studentId, email)) :
        IF existing_user # NoRow
        THEN /\ Answer(RegisterConflict(existing_user, studentId))
             /\ UNCHANGED nextToken
        ELSE /\ nextToken <= MaxTokens
             /\ Accept(r, "register", RegisterArgs(names, email, studentId, password), "commit", NoRow,
                       NewLocalUser(RegisterArgs(names, email, studentId, password), uuid4(nextToken)))
             /\ nextToken' = nextToken + 1
    /\ UNCHANGED <<users, outbox>>

\* a register that rolls the new row back when the mail is not sent
RegisterCommitRollingBack(r) ==
    /\ At(r, "register", "commit")
    /\ IF InsertFails(users, reqs[r].obj)
       THEN /\ Finish(r, Resp("register", 500, "Internal Server Error"))
            /\ UNCHANGED <<users, outbox>>
       ELSE /\ outbox' = outbox \cup {Mail(reqs[r].obj.email, "verify", reqs[r].obj.verification_token)}
            /\ \E outcome \in SendOutcomes :
                /\ users' = IF outcome = "sent" THEN Insert(users, reqs[r].obj) ELSE users
                /\ Finish(r, SendResp("register", outcome,
                                      "User registered successfully. Please check your email to verify your account."))
    /\ UNCHANGED nextToken

\* session.add(new_user); await session.commit(), then the mail.  An
\* IntegrityError is not caught: the framework answers 500.
RegisterCommit(r) ==
    /\ At(r, "register", "commit")
    /\ IF InsertFails(users, reqs[r].obj)
       THEN /\ Finish(r, Resp("register", 500, "Internal Server Error"))
            /\ UNCHANGED <<users, outbox>>
       ELSE /\ users' = Insert(users, reqs[r].obj)
            /\ SendAuthEmail(r, "verify", reqs[r].obj.verification_token,
                             "User registered successfully. Please check your email to verify your account.")
    /\ UNCHANGED nextToken

(***************************************************************************)
(* POST /login                                                             *)
(***************************************************************************)
\* select ... where studentId == :sid AND password == :encoded
LoginSelect(table, studentId, password) ==
    SelectWhere(table, "studentId", studentId) \cap SelectWhere(table, "password", b64encode(password))

\* a login that lets unverified accounts in
LoginRespIgnoringVerification(user) ==
    IF user = NoRow THEN Resp("login", 401, "Invalid student ID or password")
    ELSE [Resp("login", 200, "Login successful") EXCEPT !.user = Profile(user, user.studentId)]

\* what login answers when its select returned `user`
LoginResp(user) ==
    IF user = NoRow THEN Resp("login", 401, "Invalid student ID or password")
    ELSE IF user.is_verified = 0
    THEN [Resp("login", 403, "Email not verified") EXCEPT !.email = user.email]
    ELSE [Resp("login", 200, "Login successful") EXCEPT !.user = Profile(user, user.studentId)]

\* a login that tells an unknown studentId from a wrong secret
LoginOutcomesNamingStudentId(table, studentId, password) ==
    IF SelectWhere(table, "studentId", studentId) = {}
    THEN {Resp("login", 404, "Student ID not found")}
    ELSE {LoginResp(user) : user \in First(LoginSelect(table, studentId, password))}

\* the answers login can give in store state `table`
LoginOutcomes(table, studentId, password) ==
    {LoginResp(user) : user \in First(LoginSelect(table, studentId, password))}

Login(r, studentId, password) ==
    /\ CanStart(r)
    /\ \E resp \in LoginOutcomes(users, studentId, password) : Answer(resp)
    /\ UNCHANGED <<users, nextToken, outbox>>

(***************************************************************************)
(* POST /google-login                                                      *)
(***************************************************************************)
GoogleError == Resp("google_login", 400, "Invalid Google token")

\* a response that reports every account as new
GoogleRespAlwaysNew(user, is_new_user) ==
    [Resp("google_login", 200, "Login successful") EXCEPT
        !.is_new_user = TRUE,
        !.user = Profile(user, IF Truthy(user.studentId) THEN user.studentId ELSE "Google User")]

\* "studentId": user.studentId or "Google User"
GoogleResp(user, is_new_user) ==
    [Resp("google_login", 200, "Login successful") EXCEPT
        !.is_new_user = is_new_user,
        !.user = Profile(user, IF Truthy(user.studentId) THEN user.studentId ELSE "Google User")]

GoogleArgs(names, email, google_id, studentId) ==
    [NoArgs EXCEPT !.firstName = names[1], !.lastName = names[2], !.email = email, !.google_id = google_id, !.studentId = studentId]

\* neither the ID-token check nor the userinfo call accepts req.token
GoogleLoginInvalid(r) ==
    /\ CanStart(r)
    /\ Answer(GoogleError)
    /\ UNCHANGED <<users, nextToken, outbox>>

\* the token yields its claims; select by google_id.  A row found is
\* returned as it is, with no commit.
GoogleLogin(r, names, email, google_id, studentId) ==
    /\ CanStart(r)
    /\ \E user \in First(SelectWhere(users, "google_id", google_id)) :
        IF user # NoRow
        THEN Answer(GoogleResp(user, FALSE))
        ELSE Accept(r, "google_login", GoogleArgs(names, email, google_id, studentId), "by_email", NoRow, NoRow)
    /\ UNCHANGED <<users, nextToken, outbox>>

\* a link that also takes the names the identity provider reports
LinkedUserTakingNames(user, args) ==
    [user EXCEPT !.google_id = args.google_id,
                 !.is_verified = 1,
                 !.firstName = args.firstName,
                 !.lastName = args.lastName,
                 !.studentId = IF Truthy(args.studentId) /\ ~Truthy(@) THEN args.studentId ELSE @]

\* a link that takes the supplied studentId whether or not the row has one
LinkedUserTakingStudentId(user, args) ==
    [user EXCEPT !.google_id = args.google_id,
                 !.is_verified = 1,
                 !.studentId = IF Truthy(args.studentId) THEN args.studentId ELSE @]

\* the row found by email, linked
LinkedUser(user, args) ==
    [user EXCEPT !.google_id = args.google_id,
                 !.is_verified = 1,
                 !.studentId = IF Truthy(args.studentId) /\ ~Truthy(@) THEN args.studentId ELSE @]

\* UserDB(firstName=..., google_id=..., studentId=req.studentId, is_verified=1)
NewGoogleUser(args) ==
    UserDB(0, args.firstName, args.lastName, args.email, args.studentId, NULL, args.google_id, 1, NULL)

\* select by email: link the row found, or build a new one
GoogleByEmail(r) ==
    /\ At(r, "google_login", "by_email")
    /\ \E user \in First(SelectWhere(users, "email", reqs[r].args.email)) :
        reqs' = [reqs EXCEPT ![r].pc = "commit", ![r].row = user,
                     ![r].obj = IF user # NoRow THEN LinkedUser(user, reqs[r].args)
                                ELSE NewGoogleUser(reqs[r].args)]
    /\ UNCHANGED <<users, lastResp, nextToken, started, outbox>>

\* await session.commit(): the INSERT or the UPDATE.  An IntegrityError is
\* caught by the handler's except Exception and answered as 400.
GoogleCommit(r) ==
    /\ At(r, "google_login", "commit")
    /\ IF reqs[r].row = NoRow
       THEN IF InsertFails(users, reqs[r].obj)
            THEN Finish(r, GoogleError) /\ UNCHANGED users
            ELSE /\ users' = Insert(users, reqs[r].obj)
                 /\ reqs' = [reqs EXCEPT ![r].pc = "refresh", ![r].obj.id = Len(users) + 1]
                 /\ UNCHANGED <<lastResp, started>>
       ELSE IF UpdateFails(users, reqs[r].row, reqs[r].obj)
            THEN Finish(r, GoogleError) /\ UNCHANGED users
            ELSE /\ users' = Update(users, reqs[r].row, reqs[r].obj)
                 /\ Goto(r, "refresh")
    /\ UNCHANGED <<nextToken, outbox>>

\* await session.refresh(user): the row is read again and returned
GoogleRefresh(r) ==
    /\ At(r, "google_login", "refresh")
    /\ Finish(r, GoogleResp(users[reqs[r].obj.id], reqs[r].row = NoRow))
    /\ UNCHANGED <<users, nextToken, outbox>>

(***************************************************************************)
(* GET /verify-email                                                       *)
(***************************************************************************)
TokenResp(op, status, detail, token) == [Resp(op, status, detail) EXCEPT !.token = token]

\* a verification that leaves the token in place
VerifiedUserKeepingToken(user) == [user EXCEPT !.is_verified = 1]

\* user.is_verified = 1; user.verification_token = None
VerifiedUser(user) == [user EXCEPT !.is_verified = 1, !.verification_token = NULL]

VerifyEmail(r, token) ==
    /\ CanStart(r)
    /\ \E user \in First(SelectWhere(users, "verification_token", token)) :
        IF user = NoRow
        THEN Answer(TokenResp("verify_email", 400, "Invalid or expired verification token", token))
        ELSE Accept(r, "verify_email", [NoArgs EXCEPT !.token = token], "commit", user, VerifiedUser(user))
    /\ UNCHANGED <<users, nextToken, outbox>>

VerifyCommit(r) ==
    /\ At(r, "verify_email", "commit")
    /\ users' = Update(users, reqs[r].row, reqs[r].obj)
    /\ Finish(r, TokenResp("verify_email", 200, "Email verified successfully", reqs[r].args.token))
    /\ UNCHANGED <<nextToken, outbox>>

(***************************************************************************)
(* POST /resend-verification                                               *)
(***************************************************************************)
\* user.verification_token = token
WithVerificationToken(user, token) == [user EXCEPT !.verification_token = token]

\* a resend-verification that does not look at is_verified
ResendVerificationAlways(r, email) ==
    /\ CanStart(r)
    /\ \E user \in First(SelectWhere(users, "email", email)) :
        IF user = NoRow
        THEN Answer(Resp("resend_verification", 404, "Email not found")) /\ UNCHANGED nextToken
        ELSE /\ nextToken <= MaxTokens
             /\ Accept(r, "resend_verification", [NoArgs EXCEPT !.email = email], "commit", user,
                       WithVerificationToken(user, uuid4(nextToken)))
             /\ nextToken' = nextToken + 1
    /\ UNCHANGED <<users, outbox>>

ResendVerification(r, email) ==
    /\ CanStart(r)
    /\ \E user \in First(SelectWhere(users, "email", email)) :
        IF user = NoRow
        THEN Answer(Resp("resend_verification", 404, "Email not found")) /\ UNCHANGED nextToken
        ELSE IF user.is_verified # 0
        THEN Answer(Resp("resend_verification", 200, "Email is already verified")) /\ UNCHANGED nextToken
        ELSE /\ nextToken <= MaxTokens
             /\ Accept(r, "resend_verification", [NoArgs EXCEPT !.email = email], "commit", user,
                       WithVerificationToken(user, uuid4(nextToken)))
             /\ nextToken' = nextToken + 1
    /\ UNCHANGED <<users, outbox>>

ResendCommit(r) ==
    /\ At(r, "resend_verification", "commit")
    /\ users' = Update(users, reqs[r].row, reqs[r].obj)
    /\ SendAuthEmail(r, "verify", reqs[r].obj.verification_token, "Verification email resent")
    /\ UNCHANGED nextToken

(***************************************************************************)
(* POST /forgot-password                                                   *)
(***************************************************************************)
\* a forgot-password that keeps a reset token that is still outstanding
KeepOutstandingResetToken(user, token) ==
    IF user.reset_token # NULL THEN user ELSE [user EXCEPT !.reset_token = token]

\* user.reset_token = token
WithResetToken(user, token) == [user EXCEPT !.reset_token = token]

ForgotPassword(r, email) ==
    /\ CanStart(r)
    /\ \E user \in First(SelectWhere(users, "email", email)) :
        IF user = NoRow
        THEN Answer(Resp("forgot_password", 404, "Email not found")) /\ UNCHANGED nextToken
        ELSE /\ nextToken <= MaxTokens
             /\ Accept(r, "forgot_password", [NoArgs EXCEPT !.email = email], "commit", user,
                       WithResetToken(user, uuid4(nextToken)))
             /\ nextToken' = nextToken + 1
    /\ UNCHANGED <<users, outbox>>

ForgotCommit(r) ==
    /\ At(r, "forgot_password", "commit")
    /\ users' = Update(users, reqs[r].row, reqs[r].obj)
    /\ SendAuthEmail(r, "reset", reqs[r].obj.reset_token, "Reset email sent")
    /\ UNCHANGED nextToken

(***************************************************************************)
(* POST /reset-password                                                    *)
(***************************************************************************)
\* a reset that clears the token and leaves the secret
ResetUserTokenOnly(user, new_password) == [user EXCEPT !.reset_token = NULL]

\* user.password = encoded_password; user.reset_token = None
ResetUser(user, new_password) == [user EXCEPT !.password = b64encode(new_password), !.reset_token = NULL]

ResetPassword(r, token, new_password) ==
    /\ CanStart(r)
    /\ \E user \in First(SelectWhere(users, "reset_token", token)) :
        IF user = NoRow
        THEN Answer(TokenResp("reset_password", 400, "Invalid or expired token", token))
        ELSE Accept(r, "reset_password", [NoArgs EXCEPT !.token = token, !.password = new_password], "commit", user,
                    ResetUser(user, new_password))
    /\ UNCHANGED <<users, nextToken, outbox>>

ResetCommit(r) ==
    /\ At(r, "reset_password", "commit")
    /\ users' = Update(users, reqs[r].row, reqs[r].obj)
    /\ Finish(r, TokenResp("reset_password", 200, "Password reset successfully", reqs[r].args.token))
    /\ UNCHANGED <<nextToken, outbox>>

(***************************************************************************)
(* The service: any request may arrive while others are suspended.         *)
(***************************************************************************)
(***************************************************************************)
(* The values requests bring.  The handlers only store, copy and compare   *)
(* emails, student ids, subject ids and secrets, so which of two unused    *)
(* values a request brings makes no difference: a request brings values    *)
(* the store or a request in flight already holds, or the first value of   *)
(* its kind that none of them holds.                                       *)
(***************************************************************************)
Range(seq) == {seq[i] : i \in 1..Len(seq)}

InFlight == {reqs[r] : r \in Slots}

\* the values of column `col` in the store and in the sessions
Stored(col) ==
    {u[col] : u \in Rows(users)} \cup {q.row[col] : q \in InFlight} \cup {q.obj[col] : q \in InFlight}

Held(col) == Stored(col) \cup {q.args[col] : q \in InFlight}

HeldSecrets ==
    {pw \in Range(Secrets) : b64encode(pw) \in Stored("password") \/ \E q \in InFlight : q.args.password = pw}

\* the held values of `values`, and its first value not held
Bring(values, held) ==
    {values[i] : i \in {j \in 1..Len(values) : values[j] \in held \/ \A k \in 1..(j - 1) : values[k] \in held}}

\* the tokens a client may present: one that was issued, or a made-up one
PresentableTokens == IssuedTokens \cup {BogusToken}

\* a request of each kind arrives in slot r with some values
SomeRegister(r) ==
    \E email \in Bring(Emails, Held("email")), studentId \in Bring(StudentIds, Held("studentId")),
       password \in Bring(Secrets, HeldSecrets) :
        Register(r, RegisteredNames(email), email, studentId, password)

SomeLogin(r) ==
    \E studentId \in Bring(StudentIds, Held("studentId")), password \in Bring(Secrets, HeldSecrets) :
        Login(r, studentId, password)

SomeGoogleLogin(r) ==
    \E email \in Bring(Emails, Held("email")), google_id \in Bring(GoogleIds, Held("google_id")),
       studentId \in Bring(StudentIds, Held("studentId")) \cup {NULL} :
        GoogleLogin(r, ClaimedNames(email), email, google_id, studentId)

SomeVerifyEmail(r) == \E token \in PresentableTokens : VerifyEmail(r, token)

SomeResendVerification(r) == \E email \in Bring(Emails, Held("email")) : ResendVerification(r, email)

SomeForgotPassword(r) == \E email \in Bring(Emails, Held("email")) : ForgotPassword(r, email)

SomeResetPassword(r) ==
    \E token \in PresentableTokens, new_password \in Bring(Secrets, HeldSecrets) :
        ResetPassword(r, token, new_password)

\* requests arrive while others are suspended
Admitted == started < MaxRequests

Next ==
    \E r \in Slots :
        \/ Admitted /\ SomeRegister(r)
        \/ RegisterCommit(r)
        \/ Admitted /\ SomeLogin(r)
        \/ Admitted /\ GoogleLoginInvalid(r)
        \/ Admitted /\ SomeGoogleLogin(r)
        \/ GoogleByEmail(r)
        \/ GoogleCommit(r)
        \/ GoogleRefresh(r)
        \/ Admitted /\ SomeVerifyEmail(r)
        \/ VerifyCommit(r)
        \/ Admitted /\ SomeResendVerification(r)
        \/ ResendCommit(r)
        \/ Admitted /\ SomeForgotPassword(r)
        \/ ForgotCommit(r)
        \/ Admitted /\ SomeResetPassword(r)
        \/ ResetCommit(r)

Spec == Init /\ [][Next]_vars

\* a request arrives only once the one before it has been answered
SerialAdmitted == started < MaxSerialRequests /\ \A q \in Slots : reqs[q].pc = "idle"

SerialNext ==
    \E r \in Slots :
        \/ SerialAdmitted /\ SomeRegister(r)
        \/ RegisterCommit(r)
        \/ SerialAdmitted /\ SomeLogin(r)
        \/ SerialAdmitted /\ GoogleLoginInvalid(r)
        \/ SerialAdmitted /\ SomeGoogleLogin(r)
        \/ GoogleByEmail(r)
        \/ GoogleCommit(r)
        \/ GoogleRefresh(r)
        \/ SerialAdmitted /\ SomeVerifyEmail(r)
        \/ VerifyCommit(r)
        \/ SerialAdmitted /\ SomeResendVerification(r)
        \/ ResendCommit(r)
        \/ SerialAdmitted /\ SomeForgotPassword(r)
        \/ ForgotCommit(r)
        \/ SerialAdmitted /\ SomeResetPassword(r)
        \/ ResetCommit(r)

SerialSpec == Init /\ [][SerialNext]_vars

(***************************************************************************)
(* Properties.                                                             *)
(***************************************************************************)
\* some register request arriving in this step
RegisterStep(r, email, studentId) ==
    \E password \in Range(Secrets) : Register(r, RegisteredNames(email), email, studentId, password)

AlreadyRegistered == {"Student ID already registered", "Email already registered"}

\* C1: in every reachable state no two accounts have the same email, no two
\* accounts that have a studentId have the same one, and no two accounts
\* that have a google_id have the same one.
C1_Uniqueness ==
    \A i, j \in 1..Len(users) :
        i # j =>
            /\ users[i].email # users[j].email
            /\ users[i].studentId # NULL => users[i].studentId # users[j].studentId
            /\ users[i].google_id # NULL => users[i].google_id # users[j].google_id

\* two accounts, each with a studentId and a google_id, one of them linked
\* to a registered account
C1_Witness ==
    /\ Len(users) = 2
    /\ \A i \in 1..2 : users[i].studentId # NULL /\ users[i].google_id # NULL
    /\ \E i \in 1..2 : users[i].password # NULL

\* C2: a register request whose email or studentId is that of an existing
\* account is answered 400 "... already registered"; no account is created
\* or changed, no request stays in flight and the Notifier is not called.
C2_RegisterConflict ==
    [][\A r \in Slots, email \in Range(Emails), studentId \in Range(StudentIds) :
        (/\ RegisterStep(r, email, studentId)
         /\ \E u \in Rows(users) : u.email = email \/ u.studentId = studentId)
        => /\ lastResp'.op = "register"
           /\ lastResp'.status = 400
           /\ lastResp'.detail \in AlreadyRegistered
           /\ users' = users
           /\ reqs' = reqs
           /\ outbox' = outbox]_vars

\* a register request has been refused for its email alone
C2_Witness ==
    /\ lastResp.op = "register"
    /\ lastResp.status = 400
    /\ lastResp.detail = "Email already registered"
    /\ Len(users) = 1
    /\ outbox = {Mail(users[1].email, "verify", users[1].verification_token)}

\* C3: a register request whose studentId is that of an existing account and
\* whose email is that of an existing account (the same or another) is
\* answered "Student ID already registered", whichever row the store returns.
C3_StudentIdPrecedence ==
    [][\A r \in Slots, email \in Range(Emails), studentId \in Range(StudentIds) :
        (/\ RegisterStep(r, email, studentId)
         /\ \E u \in Rows(users) : u.email = email
         /\ \E u \in Rows(users) : u.studentId = studentId)
        => lastResp'.detail = "Student ID already registered"]_vars

\* C4: of two concurrent requests that present the same pending token (two
\* verify-email or two reset-password requests), one succeeds and the other
\* fails with 400: once one of them has been answered 200, the other, still
\* in flight, is not answered 200 as well.
C4_TokenConsumedOnce ==
    [][\A r \in Slots :
        (/\ reqs[r].op \in {"verify_email", "reset_password"}
         /\ reqs[r].pc = "commit"
         /\ reqs'[r].pc = "idle"
         /\ lastResp.op = reqs[r].op
         /\ lastResp.status = 200
         /\ lastResp.token = reqs[r].args.token)
        => lastResp'.status = 400]_vars

\* C5: a register request that commits after another request with the same
\* email or studentId has committed since its select creates no account
\* and is answered with the 400 "... already registered" error.
C5_LostRaceIsConflict ==
    [][\A r \in Slots :
        (/\ At(r, "register", "commit")
         /\ reqs'[r] # reqs[r]
         /\ \E u \in Rows(users) : u.email = reqs[r].obj.email \/ u.studentId = reqs[r].obj.studentId)
        => /\ users' = users
           /\ lastResp'.status = 400
           /\ lastResp'.detail \in AlreadyRegistered]_vars

\* C6: a google-login that found neither its subject id nor its email and
\* is about to create an account creates none when another request has
\* meanwhile created an account with that subject id or that email: the
\* table stays as it is and the request is answered 400.
C6_FirstContactRace ==
    [][\A r \in Slots :
        (/\ At(r, "google_login", "commit")
         /\ reqs'[r] # reqs[r]
         /\ reqs[r].row = NoRow
         /\ \E u \in Rows(users) : u.email = reqs[r].obj.email \/ u.google_id = reqs[r].obj.google_id)
        => /\ users' = users
           /\ lastResp'.op = "google_login"
           /\ lastResp'.status = 400]_vars

\* a first contact is about to insert a subject id that another first
\* contact, with another email, has inserted since this one looked
C6_Witness ==
    \E r \in Slots :
        /\ At(r, "google_login", "commit")
        /\ reqs[r].row = NoRow
        /\ \E u \in Rows(users) :
            /\ u.google_id = reqs[r].obj.google_id
            /\ u.email # reqs[r].obj.email
            /\ u.password = NULL

\* the answers of login, written out
EmailNotVerified(email) ==
    [op |-> "login", status |-> 403, detail |-> "Email not verified", email |-> email,
     is_new_user |-> FALSE, user |-> <<>>, token |-> NULL]

LoginSuccessful(u) ==
    [op |-> "login", status |-> 200, detail |-> "Login successful", email |-> NULL,
     is_new_user |-> FALSE, user |-> <<u.firstName, u.lastName, u.studentId>>, token |-> NULL]

InvalidCredentials ==
    [op |-> "login", status |-> 401, detail |-> "Invalid student ID or password", email |-> NULL,
     is_new_user |-> FALSE, user |-> <<>>, token |-> NULL]

\* some row of the table holds token t in column col
Pending(table, col, t) == \E u \in Rows(table) : u[col] = t

\* a request in flight has set column col to token t and not yet committed
BeingIssued(col, t) == \E q \in InFlight : q.obj[col] = t /\ q.row[col] # t

\* C7: once register has created an account, login with its studentId and
\* secret is answered 403 "Email not verified" with the account's email;
\* once verify-email has consumed the account's token, login with the
\* account's studentId and secret is answered 200 with its firstName,
\* lastName and studentId.
C7_VerifyThenLogin ==
    [][\A r \in Slots :
        /\ (At(r, "register", "commit") /\ reqs'[r].pc = "idle" /\ Len(users') = Len(users) + 1)
            => LoginOutcomes(users', reqs[r].args.studentId, reqs[r].args.password)
                    = {EmailNotVerified(reqs[r].args.email)}
        /\ (At(r, "verify_email", "commit") /\ reqs'[r].pc = "idle")
            => \A pw \in Range(Secrets) :
                LET u == users'[reqs[r].row.id]
                IN (u.studentId # NULL /\ u.password = b64encode(pw))
                    => LoginOutcomes(users', u.studentId, pw) = {LoginSuccessful(u)}]_vars

\* register, verify-email, login: the third request is answered 200 with
\* the profile of the registered account, which no google-login has linked
C7_Witness ==
    /\ started = 3
    /\ Len(users) = 1
    /\ users[1].google_id = NULL
    /\ users[1].password = b64encode(Secrets[1])
    /\ lastResp = LoginSuccessful([firstName |-> "Ada", lastName |-> "Lovelace", studentId |-> "S100"])

\* C8: a verification token is single-use.  The verify-email that consumes
\* token t is answered 200, leaves its account verified and leaves t in no
\* row; a verify-email that presents a token no row holds is answered 400
\* and changes nothing; and a token that was issued and is held by no row
\* (and by no request about to store it) is never held by a row again.
C8_VerificationTokenSingleUse ==
    [][\A r \in Slots, t \in PresentableTokens :
        /\ (At(r, "verify_email", "commit") /\ reqs'[r].pc = "idle" /\ reqs[r].args.token = t)
            => /\ lastResp'.status = 200
               /\ users'[reqs[r].row.id].is_verified = 1
               /\ ~Pending(users', "verification_token", t)
        /\ (VerifyEmail(r, t) /\ ~Pending(users, "verification_token", t))
            => /\ lastResp'.op = "verify_email"
               /\ lastResp'.status = 400
               /\ users' = users
               /\ reqs' = reqs
        /\ (t \in IssuedTokens /\ ~Pending(users, "verification_token", t) /\ ~BeingIssued("verification_token", t))
            => ~Pending(users', "verification_token", t)]_vars

\* register, verify-email with the token, verify-email with it again: the
\* third request is answered 400
C8_Witness ==
    /\ started = 3
    /\ nextToken = 2
    /\ Len(users) = 1
    /\ users[1].is_verified = 1
    /\ users[1].google_id = NULL
    /\ lastResp.op = "verify_email"
    /\ lastResp.status = 400
    /\ lastResp.token = uuid4(1)

\* C9: token rotation invalidates the previous token.  When requests are
\* served one at a time, the commit of resend-verification leaves the
\* account with a new verification token and the one it held in no row, and
\* the commit of forgot-password does the same for the reset token; a
\* verify-email or reset-password that presents a token no row holds is
\* answered 400 and changes nothing; and no account is found by more than
\* one token of a kind.
C9_RotationInvalidates ==
    [][\A r \in Slots :
        /\ (At(r, "resend_verification", "commit") /\ reqs'[r].pc = "idle")
            => LET old == users[reqs[r].row.id].verification_token
                   new == users'[reqs[r].row.id].verification_token
               IN /\ new # NULL
                  /\ new # old
                  /\ old # NULL => ~Pending(users', "verification_token", old)
        /\ (At(r, "forgot_password", "commit") /\ reqs'[r].pc = "idle")
            => LET old == users[reqs[r].row.id].reset_token
                   new == users'[reqs[r].row.id].reset_token
               IN /\ new # NULL
                  /\ new # old
                  /\ old # NULL => ~Pending(users', "reset_token", old)
        /\ \A t \in PresentableTokens :
            /\ (VerifyEmail(r, t) /\ ~Pending(users, "verification_token", t))
                => lastResp'.status = 400 /\ users' = users /\ reqs' = reqs
            /\ ((\E pw \in Range(Secrets) : ResetPassword(r, t, pw)) /\ ~Pending(users, "reset_token", t))
                => lastResp'.status = 400 /\ users' = users /\ reqs' = reqs
        /\ \A u \in Rows(users) :
            /\ Cardinality({t \in PresentableTokens : u \in SelectWhere(users, "verification_token", t)}) <= 1
            /\ Cardinality({t \in PresentableTokens : u \in SelectWhere(users, "reset_token", t)}) <= 1]_vars

\* an account, forgot-password, forgot-password again, reset-password with
\* the first reset token: the fourth request is answered 400 while the
\* second reset token is pending
C9_Witness ==
    /\ started = 4
    /\ nextToken = 3
    /\ Len(users) = 1
    /\ users[1].reset_token = uuid4(2)
    /\ lastResp.op = "reset_password"
    /\ lastResp.status = 400
    /\ lastResp.token = uuid4(1)

\* what the commit of a reset-password leaves: the account u, the secret the
\* account had, the secret the request brought
AfterReset(r, Holds(_, _, _)) ==
    (At(r, "reset_password", "commit") /\ reqs'[r].pc = "idle")
        => LET u == users'[reqs[r].row.id]
               old == users[reqs[r].row.id].password
           IN u.studentId # NULL => Holds(u, old, reqs[r].args.password)

\* C10 as stated: after forgot-password and reset-password with the token
\* just issued, login with the studentId and the new secret succeeds, and
\* login with the studentId and the old secret fails with 401.
C10_AsStated(u, old, newSecret) ==
    /\ LoginOutcomes(users', u.studentId, newSecret) = {LoginSuccessful(u)}
    /\ \A pw \in Range(Secrets) :
        old = b64encode(pw) => LoginOutcomes(users', u.studentId, pw) = {InvalidCredentials}

C10_ResetThenLogin == [][\A r \in Slots : AfterReset(r, C10_AsStated)]_vars

\* C10 amended: login with the studentId and the new secret passes the
\* credential check: it succeeds when the account is verified and is
\* answered 403 "Email not verified" when it is not; login with the old
\* secret fails with 401 when the old secret is not the new one.
C10_AsAmended(u, old, newSecret) ==
    /\ LoginOutcomes(users', u.studentId, newSecret)
            = {IF u.is_verified = 1 THEN LoginSuccessful(u) ELSE EmailNotVerified(u.email)}
    /\ \A pw \in Range(Secrets) :
        (old = b64encode(pw) /\ pw # newSecret) => LoginOutcomes(users', u.studentId, pw) = {InvalidCredentials}

C10_ResetThenLoginAmended == [][\A r \in Slots : AfterReset(r, C10_AsAmended)]_vars

\* register, verification, forgot-password, reset-password with another
\* secret, login with it: the fifth request is answered 200
C10_Witness ==
    /\ started = 5
    /\ Len(users) = 1
    /\ users[1].password = b64encode(Secrets[2])
    /\ users[1].reset_token = NULL
    /\ nextToken = 3
    /\ lastResp = LoginSuccessful(users[1])

\* the account as google-login returns it
ReturnedAccount(u) ==
    <<u.firstName, u.lastName, IF u.studentId = NULL \/ u.studentId = "" THEN "Google User" ELSE u.studentId>>

\* a google-login for subject id google_id arriving in this step, with any
\* email (and the names reported with it) and any studentId
GoogleStep(r, google_id) ==
    \E email \in Range(Emails), studentId \in Range(StudentIds) \cup {NULL} :
        GoogleLogin(r, ClaimedNames(email), email, google_id, studentId)

\* C11: when requests are served one at a time, a google-login that has
\* created or linked an account returns the account a google-login for the
\* same subject id finds afterwards; and a google-login whose subject id an
\* account holds, whatever names, email and studentId it carries, is
\* answered 200 with that account, is_new_user false, and leaves every row
\* unchanged.
C11_SecondContactIsNoOp ==
    [][\A r \in Slots :
        /\ At(r, "google_login", "refresh") /\ reqs'[r].pc = "idle"
            => \E u \in Rows(users') :
                /\ u.google_id = reqs[r].args.google_id
                /\ lastResp'.user = ReturnedAccount(u)
        /\ \A google_id \in Range(GoogleIds), u \in Rows(users) :
            (u.google_id = google_id /\ GoogleStep(r, google_id))
                => /\ users' = users
                   /\ reqs' = reqs
                   /\ lastResp'.op = "google_login"
                   /\ lastResp'.status = 200
                   /\ lastResp'.is_new_user = FALSE
                   /\ lastResp'.user = ReturnedAccount(u)]_vars

\* a first google-login creates the account of subject g-1 from the names
\* reported for ada@x.edu; a second one for g-1 is answered with it
C11_Witness ==
    /\ started = 2
    /\ Len(users) = 1
    /\ users[1].google_id = "g-1"
    /\ users[1].password = NULL
    /\ lastResp.op = "google_login"
    /\ lastResp.status = 200
    /\ lastResp.is_new_user = FALSE
    /\ lastResp.user = <<"Augusta", "King", "Google User">>

\* an account created by register that no google-login has linked and no
\* verify-email has verified
LocalOnlyUnverified(u) == u.password # NULL /\ u.google_id = NULL /\ u.is_verified = 0

\* the rows other than row id are the same in both tables
OthersUnchanged(before, after, id) ==
    /\ Len(after) = Len(before)
    /\ \A i \in 1..Len(before) : i # id => after[i] = before[i]

\* C12: a google-login that found no account by its subject id and found
\* an unverified local-only account by its email commits, when no account
\* holds the subject id, with that account verified and holding the subject
\* id, no account added and the others untouched; the studentId of the
\* account stays when it has one; whenever a link commits for a row that
\* was loaded without studentId and the request supplies one, the row gets
\* it; and a google-login that linked is answered 200 with is_new_user false.
C12_LinkByEmail ==
    [][\A r \in Slots :
        /\ (/\ At(r, "google_login", "commit")
            /\ reqs'[r] # reqs[r]
            /\ reqs[r].row # NoRow
            /\ LocalOnlyUnverified(users[reqs[r].row.id])
            /\ ~Pending(users, "google_id", reqs[r].args.google_id))
            => /\ reqs'[r].pc = "refresh"
               /\ OthersUnchanged(users, users', reqs[r].row.id)
               /\ users'[reqs[r].row.id].is_verified = 1
               /\ users'[reqs[r].row.id].google_id = reqs[r].args.google_id
               /\ users'[reqs[r].row.id].studentId = users[reqs[r].row.id].studentId
               /\ users'[reqs[r].row.id].studentId # NULL
        /\ (/\ At(r, "google_login", "commit")
            /\ reqs'[r].pc = "refresh"
            /\ reqs[r].row # NoRow
            /\ reqs[r].row.studentId = NULL
            /\ reqs[r].args.studentId # NULL)
            => users'[reqs[r].row.id].studentId = reqs[r].args.studentId
        /\ (At(r, "google_login", "refresh") /\ reqs'[r].pc = "idle" /\ reqs[r].row # NoRow)
            => /\ lastResp'.op = "google_login"
               /\ lastResp'.status = 200
               /\ lastResp'.is_new_user = FALSE]_vars

\* register, then a google-login with the registered email: the account is
\* verified and linked though its verification token was never presented
C12_Witness ==
    /\ started = 2
    /\ Len(users) = 1
    /\ users[1].password # NULL
    /\ users[1].google_id = "g-1"
    /\ users[1].is_verified = 1
    /\ users[1].verification_token = uuid4(1)
    /\ lastResp.op = "google_login"
    /\ lastResp.status = 200
    /\ lastResp.is_new_user = FALSE
    /\ lastResp.user = <<"Ada", "Lovelace", "S100">>

\* no account has the studentId
UnknownStudentId(studentId) == \A u \in Rows(users) : u.studentId # studentId

\* an account has the studentId and its encoded secret is not that of pw
WrongSecret(studentId, pw) ==
    /\ \E u \in Rows(users) : u.studentId = studentId
    /\ \A u \in Rows(users) : u.studentId = studentId => u.password # b64encode(pw)

\* C13: a login with a studentId no account has and a login with the
\* studentId of an account and a secret that is not the account's are given
\* the same answer, 401 "Invalid student ID or password" with nothing else
\* in it, and neither changes the store.
C13_NoEnumeration ==
    [][\A r \in Slots, studentId \in Range(StudentIds), pw \in Range(Secrets) :
        (Login(r, studentId, pw) /\ (UnknownStudentId(studentId) \/ WrongSecret(studentId, pw)))
            => /\ lastResp' = InvalidCredentials
               /\ users' = users
               /\ reqs' = reqs
               /\ outbox' = outbox]_vars

\* an account is stored with S100 and the first secret; the login that
\* follows is answered 401
C13_Witness ==
    /\ started = 2
    /\ Len(users) = 1
    /\ users[1].studentId = "S100"
    /\ users[1].password = b64encode(Secrets[1])
    /\ lastResp = InvalidCredentials

\* the answer of a handler whose mail the SMTP exchange did not deliver
DeliveryError(op) ==
    [op |-> op, status |-> 500, detail |-> "Failed to send email", email |-> NULL,
     is_new_user |-> FALSE, user |-> <<>>, token |-> NULL]

\* C14: when register's insert is accepted and the Notifier then fails to
\* deliver, register is answered with the delivery error and the store
\* holds the new account, unverified, with its verification token; no step
\* removes a row, changes its email, or changes the studentId of an
\* unverified account; so a
\* register that brings the email or the studentId of a row is answered
\* 400 "already registered", and a resend-verification that brings the
\* email of a row is not answered 404.
C14_CreatedThoughNotNotified ==
    [][\A r \in Slots :
        /\ (At(r, "register", "commit") /\ reqs'[r].pc = "idle" /\ lastResp' = DeliveryError("register"))
            => /\ Len(users') = Len(users) + 1
               /\ SubSeq(users', 1, Len(users)) = users
               /\ LET u == users'[Len(users')]
                  IN /\ u.email = reqs[r].args.email
                     /\ u.studentId = reqs[r].args.studentId
                     /\ u.password = b64encode(reqs[r].args.password)
                     /\ u.is_verified = 0
                     /\ u.verification_token = reqs[r].obj.verification_token
                     /\ u.verification_token \in IssuedTokens
        /\ Len(users') >= Len(users)
        /\ \A i \in 1..Len(users) :
            /\ users'[i].email = users[i].email
            /\ users[i].is_verified = 0 => users'[i].studentId = users[i].studentId
        /\ \A u \in Rows(users) :
            /\ \A email \in Range(Emails), studentId \in Range(StudentIds) :
                ((email = u.email \/ studentId = u.studentId) /\ RegisterStep(r, email, studentId))
                    => /\ lastResp'.status = 400
                       /\ lastResp'.detail \in AlreadyRegistered
                       /\ users' = users
            /\ ResendVerification(r, u.email) => ~(lastResp'.status = 404 /\ reqs' = reqs)]_vars

\* register has just been answered with the delivery error and the account
\* is in the store, unverified, its token pending
C14_Witness ==
    /\ lastResp = DeliveryError("register")
    /\ Len(users) = 1
    /\ users[1].is_verified = 0
    /\ users[1].verification_token = uuid4(1)
    /\ users[1].password = b64encode(Secrets[1])
    /\ \A r \in Slots : reqs[r].pc = "idle"

\* the answer of a handler that found the SMTP settings missing
Unconfigured(op) ==
    [op |-> op, status |-> 500, detail |-> "Mail server not configured", email |-> NULL,
     is_new_user |-> FALSE, user |-> <<>>, token |-> NULL]

\* C15: a register, resend-verification or forgot-password that is
\* answered "Mail server not configured" has left the store as it was: no
\* account created, no verification or reset token written or rotated.
C15_UnconfiguredFailsFast ==
    [][\A r \in Slots :
        (/\ reqs[r].op \in {"register", "resend_verification", "forgot_password"}
         /\ reqs[r].pc = "commit"
         /\ reqs'[r].pc = "idle"
         /\ lastResp' = Unconfigured(reqs[r].op))
        => users' = users]_vars

\* the answers of resend-verification that involve no write
AlreadyVerified ==
    [op |-> "resend_verification", status |-> 200, detail |-> "Email is already verified", email |-> NULL,
     is_new_user |-> FALSE, user |-> <<>>, token |-> NULL]

EmailNotFound ==
    [op |-> "resend_verification", status |-> 404, detail |-> "Email not found", email |-> NULL,
     is_new_user |-> FALSE, user |-> <<>>, token |-> NULL]

\* C16: a resend-verification that brings the email of a verified account
\* is answered 200 "Email is already verified", and one that brings an email
\* no account has is answered 404; in both cases no row changes, no token
\* is drawn, nothing is handed to the Notifier and no request stays in
\* flight.
C16_ResendNoOp ==
    [][\A r \in Slots, email \in Range(Emails) :
        ResendVerification(r, email)
            => /\ (\E u \in Rows(users) : u.email = email /\ u.is_verified = 1)
                    => /\ lastResp' = AlreadyVerified
                       /\ UNCHANGED <<users, reqs, nextToken, outbox>>
               /\ (\A u \in Rows(users) : u.email # email)
                    => /\ lastResp' = EmailNotFound
                       /\ UNCHANGED <<users, reqs, nextToken, outbox>>]_vars

\* a google-login creates a verified account; the resend-verification that
\* follows is answered "already verified" and no mail was ever handed over
C16_Witness ==
    /\ started = 2
    /\ Len(users) = 1
    /\ users[1].is_verified = 1
    /\ users[1].verification_token = NULL
    /\ outbox = {}
    /\ nextToken = 1
    /\ lastResp = AlreadyVerified

\* some studentId and secret lead login's select to the account u
PassesLoginMatch(u) ==
    \E studentId \in Range(StudentIds), pw \in Range(Secrets) : u \in LoginSelect(users, studentId, pw)

\* some subject id leads google-login's first select to the account u
ResolvedBySubjectId(u) ==
    \E google_id \in Range(GoogleIds) : u \in SelectWhere(users, "google_id", google_id)

\* C17: in every reachable state, an account passes login's credential
\* match for some studentId and secret exactly when it has an encoded
\* secret, and a google-login resolves to it by subject id exactly when it
\* has a subject id.
C17_LoginCapability ==
    \A u \in Rows(users) :
        /\ PassesLoginMatch(u) <=> u.password # NULL
        /\ ResolvedBySubjectId(u) <=> u.google_id # NULL

\* the commit of slot r's request wrote every column the handler changed
\* on its row, or added its whole new row, and touched nothing else
AppliedWhole(r) ==
    IF reqs[r].row = NoRow
    THEN /\ Len(users') = Len(users) + 1
         /\ SubSeq(users', 1, Len(users)) = users
         /\ \A c \in Columns : users'[Len(users')][c] = reqs[r].obj[c]
    ELSE /\ OthersUnchanged(users, users', reqs[r].row.id)
         /\ \A c \in Columns :
              users'[reqs[r].row.id][c] =
                  IF reqs[r].obj[c] # reqs[r].row[c] THEN reqs[r].obj[c] ELSE users[reqs[r].row.id][c]

\* the commit of slot r's request wrote nothing and the request was
\* answered with an error
AppliedNothing(r) ==
    /\ users' = users
    /\ reqs'[r].pc = "idle"
    /\ lastResp'.op = reqs[r].op
    /\ lastResp'.status >= 400

\* slot r's google-login is about to commit a link that adopts a studentId
\* another account has
AdoptsTakenStudentId(r) ==
    /\ At(r, "google_login", "commit")
    /\ reqs[r].row # NoRow
    /\ reqs[r].row.studentId = NULL
    /\ reqs[r].args.studentId # NULL
    /\ \E u \in Rows(users) : u.id # reqs[r].row.id /\ u.studentId = reqs[r].args.studentId

\* C18: every commit writes all of its request's changes or none of them,
\* and when it writes none the request is answered with an error; a
\* google-login that links by email and adopts a studentId another account
\* has is answered 400 and leaves every row as it was.
C18_NoPartialMutation ==
    [][\A r \in Slots :
        /\ (reqs[r].pc = "commit" /\ reqs'[r] # reqs[r]) => (AppliedWhole(r) \/ AppliedNothing(r))
        /\ (AdoptsTakenStudentId(r) /\ reqs'[r] # reqs[r])
            => /\ users' = users
               /\ reqs'[r].pc = "idle"
               /\ lastResp'.op = "google_login"
               /\ lastResp'.status = 400]_vars

\* a google-login has found by email an account without studentId and is
\* about to commit the link with a studentId that another account has
C18_Witness == \E r \in Slots : AdoptsTakenStudentId(r)

\* C19: in every reachable state, an account that is verified holds no
\* verification token.
C19_VerifiedHoldsNoToken ==
    \A u \in Rows(users) : u.is_verified = 1 => u.verification_token = NULL

\* the columns a link by email never writes
LinkFrame == {"firstName", "lastName", "email", "password", "verification_token", "reset_token"}

\* C20: the commit of a google-login that links by email leaves the names,
\* the email, the encoded secret, the verification token and the reset
\* token of the matched account, and every other account, as they were; it
\* changes the studentId only when the row was loaded without one and the
\* request supplies one; and once it has linked an unverified local-only
\* account, login with that account's studentId and secret is answered 200
\* with its profile, the verification token still pending.
C20_LinkFrame ==
    [][\A r \in Slots :
        (At(r, "google_login", "commit") /\ reqs[r].row # NoRow /\ reqs'[r].pc = "refresh")
            => LET old == users[reqs[r].row.id]
                   new == users'[reqs[r].row.id]
               IN /\ OthersUnchanged(users, users', reqs[r].row.id)
                  /\ \A c \in LinkFrame : new[c] = old[c]
                  /\ new.id = old.id
                  /\ new.is_verified = 1
                  /\ new.studentId # old.studentId
                        => /\ reqs[r].row.studentId = NULL
                           /\ new.studentId = reqs[r].args.studentId
                  /\ LocalOnlyUnverified(old)
                        => /\ new.verification_token = old.verification_token
                           /\ \A pw \in Range(Secrets) :
                                old.password = b64encode(pw)
                                    => LoginOutcomes(users', old.studentId, pw) = {LoginSuccessful(old)}]_vars

\* register, a google-login with the registered email, login: the third
\* request is answered 200 while the verification token is still pending
C20_Witness ==
    /\ started = 3
    /\ nextToken = 2
    /\ Len(users) = 1
    /\ users[1].google_id # NULL
    /\ users[1].verification_token = uuid4(1)
    /\ users[1].firstName = "Ada"
    /\ lastResp = LoginSuccessful(users[1])

====
